---- MODULE Spec2Model ----
(***************************************************************************)
(* Model of workspace/workspace_impl.go: the per-user container registry   *)
(* (containerMap), the buffered channel manageChan that counts attached    *)
(* sessions, and the methods Workspace.Create, Workspace.Connect and       *)
(* Workspace.Remove, one action per step of a method that reads or writes  *)
(* shared state or calls the Docker client.  Calls in progress, and the    *)
(* goroutines Connect starts, are kept in a bag of records, one record per *)
(* goroutine, holding the goroutine's locals and its position.             *)
(***************************************************************************)
EXTENDS Integers, Sequences, FiniteSets, Bags, TLC

VARIABLES
    containerMap,   \* sync.Map: user -> *containerInfo (NoInfo when absent)
    chans,          \* chans[c]: number of elements buffered in manageChan c
    ctn,            \* Docker daemon: state of the container named user-<u>
    ctnId,          \* Docker daemon: ID of the container named user-<u> (0: none)
    procs,          \* bag of the calls in progress and of their goroutines
    alive,          \* FALSE once log.Fatalf has terminated the process
    last,           \* the last call that returned: [op, user, res]
    budget,         \* how many more calls of the methods the callers make
    nStart,         \* per user: ContainerStart requests issued so far
    nStop,          \* per user: ContainerStop requests issued so far
    nOk,            \* per user: Connect calls that returned nil so far
    inputs,         \* what the callers of Connect pass: isTty, stdin
    demux           \* an output copy followed byte by byte: its stream and writes

vars == <<containerMap, chans, ctn, ctnId, procs, alive, last, budget,
          nStart, nStop, nOk, inputs, demux>>

----------------------------------------------------------------------------
(* Bounds of the model *)

Users == {"alice", "bob"}

MaxOps == 4         \* Create and Connect calls begun in one behaviour
FullOps == 2        \* SpecFull: calls begun once the house is full
MaxEnded == 1       \* SpecFull: sessions of the full house that may be gone

(* Program constant: make(chan struct{}, 20) and len(manageChan) >= 20 *)
Capacity == 20

----------------------------------------------------------------------------
(* Data *)

NoInfo == [id |-> 0, ch |-> 0]

containerInfo(id, ch) == [id |-> id, ch |-> ch]

(* IDs of containers that exist before the process starts. *)
PreId(u) == IF u = "alice" THEN 1 ELSE 2

MaxOf(S) == CHOOSE x \in S : \A y \in S : y <= x

(* The ID the daemon gives to a new container: one not in use. *)
FreshId == MaxOf({ctnId[u] : u \in Users} \cup {Cardinality(Users)}) + 1

(* Errors returned by the methods (nil is "nil"). *)
ErrLoad == "load container info error"
ErrTooMany == "too many shell"
ErrStart == "failed to start container"
ErrExec == "failed to create container (exec)"
ErrAttach == "failed to attach container"
ErrStdout == "failed to stdout"
ErrInspect == "failed to inspect container"
ErrCreate == "failed to create container"
Fatal == "log.Fatalf: failed to stop container"

NoCall == [op |-> "none", user |-> "none", res |-> "none"]

Returned(op, u, res) == [op |-> op, user |-> u, res |-> res]

(* A goroutine running Create or Connect: its position and its locals. *)
Proc(op, u, pc, id, ch, res) ==
    [op |-> op, user |-> u, pc |-> pc, id |-> id, ch |-> ch, res |-> res]

At(p, pc) == Proc(p.op, p.user, pc, p.id, p.ch, p.res)

AtWith(p, pc, res) == Proc(p.op, p.user, pc, p.id, p.ch, res)

Running == BagToSet(procs)

Spawn(p) == procs (+) SetToBag({p})

Move(p, q) == (procs (-) SetToBag({p})) (+) SetToBag({q})

Exit(p) == procs (-) SetToBag({p})

(* Number of goroutines in the set S of bag elements, copies counted. *)
RECURSIVE Copies(_)
Copies(S) ==
    IF S = {} THEN 0
    ELSE LET p == CHOOSE x \in S : TRUE
         IN  CopiesIn(p, procs) + Copies(S \ {p})

(* Number of Connect calls of user u at one of the positions pcs. *)
CountAt(u, pcs) ==
    Copies({p \in Running : p.user = u /\ p.op = "connect" /\ p.pc \in pcs})

(* Positions of Connect between "manageChan <- struct{}{}" and the deferred *)
(* "<-manageChan": the session holds a slot.                                *)
HoldingPcs == {"exec", "attach", "copy", "recv"}

Holders(u) == CountAt(u, HoldingPcs)

(* len(manageChan) of the record registered for u (0 without a record). *)
ActiveCount(u) ==
    IF containerMap[u] = NoInfo THEN 0 ELSE chans[containerMap[u].ch]

(* Number of Connect calls holding a slot of channel c. *)
HoldersOf(c) ==
    Copies({p \in Running : p.op = "connect" /\ p.ch = c /\ p.pc \in HoldingPcs})

----------------------------------------------------------------------------
(* Docker daemon, as seen through client.Client *)

(* ContainerStart: nil, a conflict error (errdefs.IsConflict) or another error. *)
StartOutcomes(u) ==
    IF ctn[u] = "running" THEN {"nil", "conflict", "error"} ELSE {"nil", "error"}

(* ContainerExecCreate / ContainerExecAttach: nil or an error. *)
ExecOutcomes == {"nil", "error"}

(* ContainerCreate under the name user-<u>: conflict when the name is taken. *)
CreateOutcomes(u) ==
    IF ctn[u] = "absent" THEN {"nil", "error"} ELSE {"conflict", "error"}

(* ContainerStop: the container is stopped, or the request fails. *)
StopOutcomes == {"nil", "error"}

AfterStop(s) == IF s = "running" THEN "exited" ELSE s

----------------------------------------------------------------------------
(* Workspace.Create *)

(* w.cli.ContainerCreate(...) and the branch on its error. *)
CreateContainer(u) ==
    /\ alive
    /\ budget > 0
    /\ budget' = budget - 1
    /\ \E r \in CreateOutcomes(u) :
          \/ /\ r = "nil"
             /\ ctn' = [ctn EXCEPT ![u] = "created"]
             /\ ctnId' = [ctnId EXCEPT ![u] = FreshId]
             /\ procs' = Spawn(Proc("create", u, "store", FreshId, 0, "nil"))
             /\ UNCHANGED last
          \/ /\ r = "conflict"
             /\ procs' = Spawn(Proc("create", u, "inspect", 0, 0, "nil"))
             /\ UNCHANGED <<ctn, ctnId, last>>
          \/ /\ r = "error"
             /\ last' = Returned("create", u, ErrCreate)
             /\ UNCHANGED <<ctn, ctnId, procs>>
    /\ UNCHANGED <<inputs, demux, containerMap, chans, alive, nStart, nStop, nOk>>

(* Mutant: the ID of the failed ContainerCreate's response (empty) is kept. *)
InspectedIdOfCreateResponse(u) == 0

(* Mutant: the record is stored before the error of ContainerInspect is    *)
(* looked at.                                                              *)
CreateInspectStoresFirst(p) ==
    /\ alive
    /\ p.op = "create" /\ p.pc = "inspect"
    /\ containerMap' = [containerMap EXCEPT ![p.user] = containerInfo(0, Len(chans) + 1)]
    /\ chans' = Append(chans, 0)
    /\ procs' = Exit(p)
    /\ last' = Returned("create", p.user, ErrInspect)
    /\ UNCHANGED <<inputs, demux, ctn, ctnId, alive, budget, nStart, nStop, nOk>>

(* ctnInfo.ID of the ContainerInspect response. *)
InspectedId(u) == ctnId[u]

(* w.cli.ContainerInspect(ctx, ctnName) after a conflict. *)
CreateInspect(p) ==
    /\ alive
    /\ p.op = "create" /\ p.pc = "inspect"
    /\ \/ /\ procs' = Move(p, Proc("create", p.user, "store", InspectedId(p.user), 0, "nil"))
          /\ UNCHANGED last
       \/ /\ procs' = Exit(p)
          /\ last' = Returned("create", p.user, ErrInspect)
    /\ UNCHANGED <<inputs, demux, containerMap, chans, ctn, ctnId, alive, budget, nStart, nStop, nOk>>

(* containerMap.Store(userName, &containerInfo{id, make(chan struct{}, 20)}) *)
StoreInfo(u, id) ==
    /\ chans' = Append(chans, 0)
    /\ containerMap' = [containerMap EXCEPT ![u] = containerInfo(id, Len(chans) + 1)]

CreateStore(p) ==
    /\ alive
    /\ p.op = "create" /\ p.pc = "store"
    /\ StoreInfo(p.user, p.id)
    /\ procs' = Exit(p)
    /\ last' = Returned("create", p.user, "nil")
    /\ UNCHANGED <<inputs, demux, ctn, ctnId, alive, budget, nStart, nStop, nOk>>

----------------------------------------------------------------------------
(* Workspace.Remove *)

(* Mutant: the user's record is deleted from containerMap. *)
RemoveDeletesRecord(u) ==
    /\ alive
    /\ budget > 0
    /\ budget' = budget - 1
    /\ containerMap' = [containerMap EXCEPT ![u] = NoInfo]
    /\ last' = Returned("remove", u, "nil")
    /\ UNCHANGED <<inputs, demux, chans, ctn, ctnId, procs, alive, nStart, nStop, nOk>>

(* Remove(ctx, userName) returns nil and does nothing else. *)
Remove(u) ==
    /\ alive
    /\ budget > 0
    /\ budget' = budget - 1
    /\ last' = Returned("remove", u, "nil")
    /\ UNCHANGED <<inputs, demux, containerMap, chans, ctn, ctnId, procs, alive, nStart, nStop, nOk>>

----------------------------------------------------------------------------
(* The goroutines Connect starts: resize forwarding and the copy of stdin *)

MaxWin == 2         \* events received from one winCh

(* The i-th terminal size sent on winCh: each one differs from the others. *)
Window(i) == [Height |-> 24 * i, Width |-> 80 * i]

(* types.ResizeOptions{Height: win.Height, Width: win.Width} *)
ResizeOptions(win) == [Height |-> win.Height, Width |-> win.Width]

(* The goroutine of "for win := range winCh": the events it received, the  *)
(* requests it sent with ContainerExecResize, whether the last one failed. *)
ResizeProc(u, pc, got, sent, err) ==
    [op |-> "resize", user |-> u, pc |-> pc, got |-> got, sent |-> sent,
     err |-> err]

(* if isTty { go func() { for win := range winCh { ... } }() } *)
ResizeGoroutine(u, isTty) ==
    IF isTty THEN SetToBag({ResizeProc(u, "range", <<>>, <<>>, FALSE)})
    ELSE EmptyBag

(* The goroutine of io.Copy(stream.Conn, stdin); ends: whether stdin is    *)
(* ever exhausted.                                                         *)
StdinProc(u, pc, ends) == [op |-> "stdin", user |-> u, pc |-> pc, ends |-> ends]

(* go func() { defer stream.CloseWrite(); io.Copy(stream.Conn, stdin) }() *)
StdinGoroutines(u) ==
    IF inputs.stdin = {} THEN {EmptyBag}
    ELSE {SetToBag({StdinProc(u, "copy", e)}) : e \in inputs.stdin}

(* Mutant: the loop goes on after a failed ContainerExecResize. *)
ResizeForwardWithoutBreak(g) ==
    /\ alive
    /\ g.op = "resize" /\ g.pc = "range"
    /\ Len(g.got) < MaxWin
    /\ \E r \in {"nil", "error"} :
          LET win == Window(Len(g.got) + 1)
          IN  procs' = Move(g, ResizeProc(g.user, "range", Append(g.got, win),
                                          Append(g.sent, ResizeOptions(win)),
                                          r # "nil"))
    /\ UNCHANGED <<inputs, demux, containerMap, chans, ctn, ctnId, alive, last,
                   budget, nStart, nStop, nOk>>

(* An event is received from winCh and sent on with ContainerExecResize;   *)
(* on an error the loop is left (log.Println(err); break).                 *)
ResizeForward(g) ==
    /\ alive
    /\ g.op = "resize" /\ g.pc = "range"
    /\ Len(g.got) < MaxWin
    /\ \E r \in {"nil", "error"} :
          LET win == Window(Len(g.got) + 1)
          IN  procs' = Move(g, ResizeProc(g.user,
                                          IF r = "nil" THEN "range" ELSE "done",
                                          Append(g.got, win),
                                          Append(g.sent, ResizeOptions(win)),
                                          r # "nil"))
    /\ UNCHANGED <<inputs, demux, containerMap, chans, ctn, ctnId, alive, last,
                   budget, nStart, nStop, nOk>>

(* winCh is closed: the range loop ends and the goroutine returns. *)
ResizeClosed(g) ==
    /\ alive
    /\ g.op = "resize" /\ g.pc = "range"
    /\ procs' = Move(g, ResizeProc(g.user, "done", g.got, g.sent, g.err))
    /\ UNCHANGED <<inputs, demux, containerMap, chans, ctn, ctnId, alive, last,
                   budget, nStart, nStop, nOk>>

(* stdin is exhausted: io.Copy returns and the deferred stream.CloseWrite() *)
(* runs.                                                                    *)
StdinCopyEnds(g) ==
    /\ alive
    /\ g.op = "stdin" /\ g.pc = "copy"
    /\ g.ends
    /\ procs' = Move(g, StdinProc(g.user, "done", g.ends))
    /\ UNCHANGED <<inputs, demux, containerMap, chans, ctn, ctnId, alive, last,
                   budget, nStart, nStop, nOk>>

----------------------------------------------------------------------------
(* Workspace.Connect *)

(* Mutant: the ok of containerMap.Load is ignored. *)
LoadedIgnoringOk(u) == TRUE

(* iContainerInfo, ok := containerMap.Load(userName) *)
Loaded(u) == containerMap[u] # NoInfo

(* containerMap.Load(userName): the call returns when there is no entry. *)
ConnectLoad(u) ==
    /\ alive
    /\ budget > 0
    /\ budget' = budget - 1
    /\ IF Loaded(u)
       THEN /\ procs' = Spawn(Proc("connect", u, "check",
                                   containerMap[u].id, containerMap[u].ch, "nil"))
            /\ UNCHANGED last
       ELSE /\ last' = Returned("connect", u, ErrLoad)
            /\ UNCHANGED procs
    /\ UNCHANGED <<inputs, demux, containerMap, chans, ctn, ctnId, alive, nStart, nStop, nOk>>

(* Mutant: the capacity check is off by one (> instead of >=). *)
IsFullOffByOne(c) == chans[c] > Capacity

(* if len(ctnInfo.manageChan) >= 20 { return errors.New("too many shell") } *)
IsFull(c) == chans[c] >= Capacity

ConnectCheck(p) ==
    /\ alive
    /\ p.op = "connect" /\ p.pc = "check"
    /\ IF IsFull(p.ch)
       THEN /\ procs' = Exit(p)
            /\ last' = Returned("connect", p.user, ErrTooMany)
       ELSE /\ procs' = Move(p, At(p, "start"))
            /\ UNCHANGED last
    /\ UNCHANGED <<inputs, demux, containerMap, chans, ctn, ctnId, alive, budget, nStart, nStop, nOk>>

(* Mutant: a conflict answer of ContainerStart is an error like any other. *)
StartFailsOnConflict(r) == r # "nil"

(* w.cli.ContainerStart(ctx, ctnInfo.id, ...); a conflict is not an error. *)
StartFails(r) == r # "nil" /\ r # "conflict"

(* Mutant: the slot is taken before ContainerStart and kept on its error.  *)
ConnectStartHoldingSlot(p) ==
    /\ alive
    /\ p.op = "connect" /\ p.pc = "start"
    /\ nStart' = [nStart EXCEPT ![p.user] = @ + 1]
    /\ chans' = [chans EXCEPT ![p.ch] = @ + 1]
    /\ procs' = Exit(p)
    /\ last' = Returned("connect", p.user, ErrStart)
    /\ UNCHANGED <<inputs, demux, containerMap, ctn, ctnId, alive, budget, nStop, nOk>>

(* What the call does with the answer r of ContainerStart. *)
ConnectStartOn(p, r) ==
    /\ ctn' = IF r = "nil" THEN [ctn EXCEPT ![p.user] = "running"] ELSE ctn
    /\ IF StartFails(r)
       THEN /\ procs' = Exit(p)
            /\ last' = Returned("connect", p.user, ErrStart)
       ELSE /\ procs' = Move(p, At(p, "send"))
            /\ UNCHANGED last

ConnectStart(p) ==
    /\ alive
    /\ p.op = "connect" /\ p.pc = "start"
    /\ nStart' = [nStart EXCEPT ![p.user] = @ + 1]
    /\ \E r \in StartOutcomes(p.user) : ConnectStartOn(p, r)
    /\ UNCHANGED <<inputs, demux, containerMap, chans, ctnId, alive, budget, nStop, nOk>>

(* ctnInfo.manageChan <- struct{}{}: blocks while the buffer is full. *)
CanSend(c) == chans[c] < Capacity

ConnectAcquire(p) ==
    /\ alive
    /\ p.op = "connect" /\ p.pc = "send"
    /\ CanSend(p.ch)
    /\ chans' = [chans EXCEPT ![p.ch] = @ + 1]
    /\ procs' = Move(p, At(p, "exec"))
    /\ UNCHANGED <<inputs, demux, containerMap, ctn, ctnId, alive, last, budget, nStart, nStop, nOk>>

(* w.cli.ContainerExecCreate(ctx, ctnInfo.id, createOpts); on an error the *)
(* method returns, which runs the deferred function.  Otherwise, for a     *)
(* session with a terminal, the resize goroutine is started.               *)
ConnectExecCreate(p) ==
    /\ alive
    /\ p.op = "connect" /\ p.pc = "exec"
    /\ \E r \in ExecOutcomes :
          IF r = "nil"
          THEN \E isTty \in inputs.isTty :
                  procs' = Move(p, At(p, "attach")) (+) ResizeGoroutine(p.user, isTty)
          ELSE procs' = Move(p, AtWith(p, "recv", ErrExec))
    /\ UNCHANGED <<inputs, demux, containerMap, chans, ctn, ctnId, alive, last, budget,
                   nStart, nStop, nOk>>

(* Mutant: the release is deferred only after the attach, so that a failed *)
(* attach returns without it.                                              *)
ConnectAttachBeforeDefer(p) ==
    /\ alive
    /\ p.op = "connect" /\ p.pc = "attach"
    /\ \/ /\ \E g \in StdinGoroutines(p.user) :
                procs' = Move(p, At(p, "copy")) (+) g
          /\ UNCHANGED last
       \/ /\ procs' = Exit(p)
          /\ last' = Returned("connect", p.user, ErrAttach)
    /\ UNCHANGED <<inputs, demux, containerMap, chans, ctn, ctnId, alive, budget,
                   nStart, nStop, nOk>>

(* w.cli.ContainerExecAttach(ctx, idRes.ID, attachOpts); once attached the *)
(* goroutines copying the output and stdin are started.                    *)
ConnectAttach(p) ==
    /\ alive
    /\ p.op = "connect" /\ p.pc = "attach"
    /\ \E r \in ExecOutcomes :
          IF r = "nil"
          THEN \E g \in StdinGoroutines(p.user) :
                  procs' = Move(p, At(p, "copy")) (+) g
          ELSE procs' = Move(p, AtWith(p, "recv", ErrAttach))
    /\ UNCHANGED <<inputs, demux, containerMap, chans, ctn, ctnId, alive, last, budget,
                   nStart, nStop, nOk>>

(* Mutant: the method also waits for the goroutine copying stdin. *)
ConnectOutputAfterStdin(p) ==
    /\ alive
    /\ p.op = "connect" /\ p.pc = "copy"
    /\ \A g \in Running : (g.op = "stdin" /\ g.user = p.user) => g.pc = "done"
    /\ \E r \in {"nil", ErrStdout} : procs' = Move(p, AtWith(p, "recv", r))
    /\ UNCHANGED <<inputs, demux, containerMap, chans, ctn, ctnId, alive, last, budget,
                   nStart, nStop, nOk>>

(* err = <-outputErr: the output copy ends, with nil or with an error. *)
ConnectOutput(p) ==
    /\ alive
    /\ p.op = "connect" /\ p.pc = "copy"
    /\ \E r \in {"nil", ErrStdout} : procs' = Move(p, AtWith(p, "recv", r))
    /\ UNCHANGED <<inputs, demux, containerMap, chans, ctn, ctnId, alive, last, budget,
                   nStart, nStop, nOk>>

(* The method has returned p.res to its caller. *)
Return(p) ==
    /\ procs' = Exit(p)
    /\ last' = Returned("connect", p.user, p.res)
    /\ nOk' = [nOk EXCEPT ![p.user] = IF p.res = "nil" THEN @ + 1 ELSE @]

(* deferred function: <-ctnInfo.manageChan *)
ReleaseRecv(p) ==
    /\ alive
    /\ p.op = "connect" /\ p.pc = "recv"
    /\ chans' = [chans EXCEPT ![p.ch] = @ - 1]
    /\ procs' = Move(p, At(p, "len"))
    /\ UNCHANGED <<inputs, demux, containerMap, ctn, ctnId, alive, last, budget, nStart, nStop, nOk>>

(* Mutant: the length is compared with the value it had before the receive. *)
IsDrainedBeforeRecv(c) == chans[c] = 1

(* deferred function: if len(ctnInfo.manageChan) == 0 *)
IsDrained(c) == chans[c] = 0

ReleaseLen(p) ==
    /\ alive
    /\ p.op = "connect" /\ p.pc = "len"
    /\ IF IsDrained(p.ch)
       THEN /\ procs' = Move(p, At(p, "stop"))
            /\ UNCHANGED <<last, nOk>>
       ELSE Return(p)
    /\ UNCHANGED <<inputs, demux, containerMap, chans, ctn, ctnId, alive, budget, nStart, nStop>>

(* deferred function: w.cli.ContainerStop(ctx, ctnInfo.id, &stopTimeout);  *)
(* log.Fatalf on an error ends the process (os.Exit(1)).                   *)
StopFailed(p) ==
    /\ alive' = FALSE
    /\ last' = Returned("connect", p.user, Fatal)
    /\ UNCHANGED <<inputs, demux, procs, ctn, nOk>>

ReleaseStop(p) ==
    /\ alive
    /\ p.op = "connect" /\ p.pc = "stop"
    /\ nStop' = [nStop EXCEPT ![p.user] = @ + 1]
    /\ \E r \in StopOutcomes :
          IF r = "nil"
          THEN /\ ctn' = [ctn EXCEPT ![p.user] = AfterStop(@)]
               /\ Return(p)
               /\ UNCHANGED alive
          ELSE StopFailed(p)
    /\ UNCHANGED <<inputs, demux, containerMap, chans, ctnId, budget, nStart>>

----------------------------------------------------------------------------
(* The program from construction: the registry is empty, no call is in     *)
(* progress; containers of an earlier run of the process may exist.        *)

----------------------------------------------------------------------------
(* The output copy of a session, byte by byte *)

Bytes == {0, 2}
MaxPayload == 2     \* bytes of one payload
MaxFrames == 2      \* frames of one output stream

Streams == {"stdout", "stderr"}

Payloads == UNION {[1..n -> Bytes] : n \in 0..MaxPayload}

Frames == [stream : Streams, payload : Payloads]

FrameSeqs == UNION {[1..n -> Frames] : n \in 0..MaxFrames}

(* The frame format of a stream attached without a terminal: a header of   *)
(* 8 bytes (stream selector, three zero bytes, payload length as a         *)
(* big-endian 32-bit number) and then the payload.                         *)
Selector(s) == IF s = "stdout" THEN 1 ELSE 2

BigEndian32(n) ==
    <<(n \div 16777216) % 256, (n \div 65536) % 256, (n \div 256) % 256, n % 256>>

Uint32(b) == b[1] * 16777216 + b[2] * 65536 + b[3] * 256 + b[4]

EncodeFrame(f) ==
    <<Selector(f.stream), 0, 0, 0>> \o BigEndian32(Len(f.payload)) \o f.payload

RECURSIVE Encode(_)
Encode(fs) ==
    IF fs = <<>> THEN <<>> ELSE EncodeFrame(Head(fs)) \o Encode(Tail(fs))

(* stdcopy.StdCopy(stdout, stderr, stream.Reader), one frame: the header   *)
(* is read, then the payload, which is written to the writer the selector  *)
(* names (0 and 1: stdout, 2: stderr).  The copy ends at the end of the    *)
(* stream, and with an error on any other selector.                        *)
StdCopy(d) ==
    LET w == d.wire
        size == Uint32(SubSeq(w, 5, 8))
    IN  IF Len(w) < 8 THEN [d EXCEPT !.pc = "done"]
        ELSE IF w[1] \notin {0, 1, 2} THEN [d EXCEPT !.pc = "done", !.err = TRUE]
        ELSE IF Len(w) < 8 + size THEN [d EXCEPT !.pc = "done"]
        ELSE [d EXCEPT !.wire = SubSeq(w, 9 + size, Len(w)),
                       !.out = Append(@, [stream |-> IF w[1] = 2 THEN "stderr"
                                                                 ELSE "stdout",
                                          payload |-> SubSeq(w, 9, 8 + size)])]

(* io.Copy(stdout, stream.Reader): what is read is written to stdout. *)
Copy(d) ==
    IF d.wire = <<>> THEN [d EXCEPT !.pc = "done"]
    ELSE [d EXCEPT !.wire = <<>>,
                   !.out = Append(@, [stream |-> "stdout", payload |-> d.wire])]

(* Mutant: the two branches of the output copy are exchanged. *)
DemultiplexedOnTty(isTty) == isTty

(* if isTty { io.Copy } else { stdcopy.StdCopy } *)
Demultiplexed(isTty) == ~isTty

OutputCopied(d) == IF Demultiplexed(d.isTty) THEN StdCopy(d) ELSE Copy(d)

(* The output goroutine reads from the stream and writes what it read. *)
OutputCopy ==
    /\ alive
    /\ demux.pc = "copy"
    /\ OutputCopied(demux).pc = "copy"
    /\ demux' = OutputCopied(demux)
    /\ UNCHANGED <<containerMap, chans, ctn, ctnId, procs, alive, last, budget,
                   nStart, nStop, nOk, inputs>>

(* The copy returns: the goroutine goes on to outputErr <- err. *)
OutputCopyReturns ==
    /\ alive
    /\ demux.pc = "copy"
    /\ OutputCopied(demux).pc = "done"
    /\ demux' = OutputCopied(demux)
    /\ UNCHANGED <<containerMap, chans, ctn, ctnId, procs, alive, last, budget,
                   nStart, nStop, nOk, inputs>>

(* The callers of these specifications pass isTty = false; the copies of   *)
(* stdin, which share nothing with any call, are not followed, and no      *)
(* output stream is followed byte by byte.                                 *)
NoStreams == [isTty |-> {FALSE}, stdin |-> {}]

NoDemux == [isTty |-> FALSE, frames |-> <<>>, wire |-> <<>>, out |-> <<>>,
            pc |-> "none", err |-> FALSE]

(* Users whose container an earlier run of the process may have left.      *)
PreUsers == {"alice"}

Zero == [u \in Users |-> 0]

Init ==
    /\ containerMap = [u \in Users |-> NoInfo]
    /\ chans = <<>>
    /\ ctn \in [Users -> {"absent", "exited"}]
    /\ \A u \in Users \ PreUsers : ctn[u] = "absent"
    /\ ctnId = [u \in Users |-> IF ctn[u] = "absent" THEN 0 ELSE PreId(u)]
    /\ procs = EmptyBag
    /\ alive = TRUE
    /\ last = NoCall
    /\ budget = MaxOps
    /\ nStart = Zero
    /\ nStop = Zero
    /\ nOk = Zero
    /\ inputs = NoStreams
    /\ demux = NoDemux

Next ==
    \/ \E u \in Users : CreateContainer(u)
    \/ \E p \in Running : CreateInspect(p)
    \/ \E p \in Running : CreateStore(p)
    \/ \E u \in Users : ConnectLoad(u)
    \/ \E p \in Running : ConnectCheck(p)
    \/ \E p \in Running : ConnectStart(p)
    \/ \E p \in Running : ConnectAcquire(p)
    \/ \E p \in Running : ConnectExecCreate(p)
    \/ \E p \in Running : ConnectAttach(p)
    \/ \E p \in Running : ConnectOutput(p)
    \/ \E p \in Running : ReleaseRecv(p)
    \/ \E p \in Running : ReleaseLen(p)
    \/ \E p \in Running : ReleaseStop(p)
    \/ \E u \in Users : Remove(u)

Spec == Init /\ [][Next]_vars

(* Every call in progress eventually takes its next step: goroutines are   *)
(* scheduled fairly, the Docker client answers, output streams end.        *)
Step ==
    \E p \in Running :
        \/ CreateInspect(p) \/ CreateStore(p)
        \/ ConnectCheck(p) \/ ConnectStart(p) \/ ConnectAcquire(p)
        \/ ConnectExecCreate(p) \/ ConnectAttach(p) \/ ConnectOutput(p)
        \/ ReleaseRecv(p) \/ ReleaseLen(p) \/ ReleaseStop(p)

FairSpec == Init /\ [][Next]_vars /\ WF_vars(Step)

----------------------------------------------------------------------------
(* Sequential callers: a call begins only after every earlier call has     *)
(* returned, and no container exists at the start.                         *)

InitSeq == Init /\ \A u \in Users : ctn[u] = "absent"

Sequential(A) == A /\ (budget' # budget => procs = EmptyBag)

NextSeq ==
    \/ \E u \in Users : Sequential(CreateContainer(u))
    \/ \E p \in Running : Sequential(CreateInspect(p))
    \/ \E p \in Running : Sequential(CreateStore(p))
    \/ \E u \in Users : Sequential(ConnectLoad(u))
    \/ \E p \in Running : Sequential(ConnectCheck(p))
    \/ \E p \in Running : Sequential(ConnectStart(p))
    \/ \E p \in Running : Sequential(ConnectAcquire(p))
    \/ \E p \in Running : Sequential(ConnectExecCreate(p))
    \/ \E p \in Running : Sequential(ConnectAttach(p))
    \/ \E p \in Running : Sequential(ConnectOutput(p))
    \/ \E p \in Running : Sequential(ReleaseRecv(p))
    \/ \E p \in Running : Sequential(ReleaseLen(p))
    \/ \E p \in Running : Sequential(ReleaseStop(p))
    \/ \E u \in Users : Sequential(Remove(u))

SpecSeq == InitSeq /\ [][NextSeq]_vars

----------------------------------------------------------------------------
(* A full house: alice is registered, her container runs and Capacity      *)
(* sessions are attached (each has passed ContainerStart, the send,        *)
(* ContainerExecCreate and ContainerExecAttach and waits on outputErr).    *)

Attached(u) == CountAt(u, {"copy"})

InitFull ==
    /\ containerMap = [u \in Users |->
                         IF u = "alice" THEN containerInfo(PreId(u), 1) ELSE NoInfo]
    /\ chans = <<Capacity>>
    /\ ctn = [u \in Users |-> IF u = "alice" THEN "running" ELSE "absent"]
    /\ ctnId = [u \in Users |-> IF u = "alice" THEN PreId(u) ELSE 0]
    /\ procs = [p \in {Proc("connect", "alice", "copy", PreId("alice"), 1, "nil")}
                  |-> Capacity]
    /\ alive = TRUE
    /\ last = Returned("create", "alice", "nil")
    /\ budget = FullOps
    /\ nStart = [u \in Users |-> IF u = "alice" THEN Capacity ELSE 0]
    /\ nStop = Zero
    /\ nOk = Zero
    /\ inputs = NoStreams
    /\ demux = NoDemux

(* Only alice's calls are made, and at most MaxEnded of her attached       *)
(* sessions are gone at any time.                                          *)
OnlyAlice ==
    /\ \A p \in Running : p.user = "alice"
    /\ last.user = "alice"

FullHouse(A) == A /\ OnlyAlice' /\ Attached("alice")' >= Capacity - MaxEnded

NextFull ==
    \/ \E u \in Users : FullHouse(CreateContainer(u))
    \/ \E p \in Running : FullHouse(CreateInspect(p))
    \/ \E p \in Running : FullHouse(CreateStore(p))
    \/ \E u \in Users : FullHouse(ConnectLoad(u))
    \/ \E p \in Running : FullHouse(ConnectCheck(p))
    \/ \E p \in Running : FullHouse(ConnectStart(p))
    \/ \E p \in Running : FullHouse(ConnectAcquire(p))
    \/ \E p \in Running : FullHouse(ConnectExecCreate(p))
    \/ \E p \in Running : FullHouse(ConnectAttach(p))
    \/ \E p \in Running : FullHouse(ConnectOutput(p))
    \/ \E p \in Running : FullHouse(ReleaseRecv(p))
    \/ \E p \in Running : FullHouse(ReleaseLen(p))
    \/ \E p \in Running : FullHouse(ReleaseStop(p))
    \/ \E u \in Users : FullHouse(Remove(u))

SpecFull == InitFull /\ [][NextFull]_vars

----------------------------------------------------------------------------
(* Sessions with their goroutines: the callers pass isTty true or false,   *)
(* a winCh on which events arrive until it is closed, and a stdin that is  *)
(* exhausted at some time or never.                                        *)

SessOps == 2        \* SpecSession: calls begun in one behaviour

Streamed == [isTty |-> BOOLEAN, stdin |-> BOOLEAN]

InitSession ==
    /\ containerMap = [u \in Users |-> NoInfo]
    /\ chans = <<>>
    /\ ctn \in [Users -> {"absent", "exited"}]
    /\ \A u \in Users \ PreUsers : ctn[u] = "absent"
    /\ ctnId = [u \in Users |-> IF ctn[u] = "absent" THEN 0 ELSE PreId(u)]
    /\ procs = EmptyBag
    /\ alive = TRUE
    /\ last = NoCall
    /\ budget = SessOps
    /\ nStart = Zero
    /\ nStop = Zero
    /\ nOk = Zero
    /\ inputs = Streamed
    /\ demux = NoDemux

NextSession ==
    \/ \E u \in Users : CreateContainer(u)
    \/ \E p \in Running : CreateInspect(p)
    \/ \E p \in Running : CreateStore(p)
    \/ \E u \in Users : ConnectLoad(u)
    \/ \E p \in Running : ConnectCheck(p)
    \/ \E p \in Running : ConnectStart(p)
    \/ \E p \in Running : ConnectAcquire(p)
    \/ \E p \in Running : ConnectExecCreate(p)
    \/ \E p \in Running : ConnectAttach(p)
    \/ \E p \in Running : ConnectOutput(p)
    \/ \E p \in Running : ReleaseRecv(p)
    \/ \E p \in Running : ReleaseLen(p)
    \/ \E p \in Running : ReleaseStop(p)
    \/ \E u \in Users : Remove(u)
    \/ \E g \in Running : ResizeForward(g)
    \/ \E g \in Running : ResizeClosed(g)
    \/ \E g \in Running : StdinCopyEnds(g)

SpecSession == InitSession /\ [][NextSession]_vars

----------------------------------------------------------------------------
(* One output copy on its own: every stream of at most MaxFrames frames,   *)
(* for a session with and without a terminal; no call is made.             *)

InitDemux ==
    /\ containerMap = [u \in Users |-> NoInfo]
    /\ chans = <<>>
    /\ ctn = [u \in Users |-> "absent"]
    /\ ctnId = Zero
    /\ procs = EmptyBag
    /\ alive = TRUE
    /\ last = NoCall
    /\ budget = 0
    /\ nStart = Zero
    /\ nStop = Zero
    /\ nOk = Zero
    /\ inputs = NoStreams
    /\ demux \in {[isTty |-> t, frames |-> fs, wire |-> Encode(fs), out |-> <<>>,
                   pc |-> "copy", err |-> FALSE] : t \in BOOLEAN, fs \in FrameSeqs}

NextDemux == OutputCopy \/ OutputCopyReturns

SpecDemux == InitDemux /\ [][NextDemux]_vars

----------------------------------------------------------------------------
(* Properties *)

(* The call p took the step: one copy of p left its position. *)
Took(p) == CopiesIn(p, procs') < CopiesIn(p, procs)

StopIssued(u) == nStop'[u] = nStop[u] + 1

(* Sessions of u that hold a slot or have passed ContainerStart and are    *)
(* about to send on manageChan.                                            *)
HoldingOrAboutTo(u) == CountAt(u, HoldingPcs \cup {"send"})

NoSession(u) == CountAt(u, {"check", "start", "send", "exec", "attach", "copy",
                            "recv", "len", "stop"}) = 0

(* C1: the sandbox becomes running only on the 0->1 edge of the active     *)
(* count and a stop request is issued only for a drain: when it is issued  *)
(* no session of the user holds or is about to hold a slot, and the        *)
(* sandbox has not already been stopped for this drain.                    *)
C1_StartStopExactlyOnce ==
    [][\A u \in Users :
          /\ StopIssued(u) => HoldingOrAboutTo(u) = 0 /\ ctn[u] = "running"
          /\ (ctn[u] # "running" /\ ctn'[u] = "running") => Holders(u) = 0]_vars

(* C2: whenever a session of the user holds a slot, the user's sandbox is  *)
(* running or a Connect of the user is about to issue its start request.   *)
C2_HeldSlotImpliesRunning ==
    \A u \in Users :
        Holders(u) > 0 => ctn[u] = "running" \/ CountAt(u, {"start"}) > 0

(* C3: for every user, at most Capacity Connect calls hold a session slot. *)
C3_HoldersWithinCapacity ==
    \A u \in Users : Holders(u) <= Capacity

C5_ProcessStaysLive ==
    alive /\ last.res # Fatal

(* C6: a record registered for a user holds the ID the runtime reports for *)
(* the container of that user's name, also when the record was registered  *)
(* after an "already exists" answer; every Connect in progress addresses   *)
(* that container, and no two users share one.                             *)
C6_CreateIdempotent ==
    /\ \A u \in Users :
          containerMap[u] # NoInfo
          => containerMap[u].id = ctnId[u] /\ ctnId[u] # 0
    /\ \A p \in Running : p.op = "connect" => p.id = ctnId[p.user]
    /\ \A u, v \in Users : (u # v /\ ctnId[u] # 0) => ctnId[u] # ctnId[v]

(* Create has returned twice for alice: the first call created the         *)
(* container, the second met the conflict and registered the inspected ID. *)
C6_Witness ==
    /\ ctn["alice"] = "created"
    /\ Len(chans) = 2
    /\ containerMap["bob"] = NoInfo
    /\ procs = EmptyBag
    /\ last = Returned("create", "alice", "nil")
    /\ containerMap["alice"].id = ctnId["alice"]

(* C7: a Connect for a user without a record returns the lookup error and  *)
(* changes nothing else: no record, no container, no call in progress, no  *)
(* runtime request.                                                        *)
C7_LookupFailureHasNoEffect ==
    [][\A u \in Users :
          (ConnectLoad(u) /\ containerMap[u] = NoInfo)
          => /\ last' = Returned("connect", u, ErrLoad)
             /\ UNCHANGED <<containerMap, chans, ctn, ctnId, procs, alive,
                            nStart, nStop, nOk>>]_vars

C7_Witness ==
    /\ last = Returned("connect", "bob", ErrLoad)
    /\ containerMap["bob"] = NoInfo
    /\ ctn["bob"] = "absent"
    /\ nStart["bob"] = 0
    /\ NoSession("bob")

(* Create(alice) and two Connect(alice) calls were made, one after the     *)
(* other, all have returned and both Connect calls returned nil.           *)
TwoSequentialConnects ==
    /\ procs = EmptyBag
    /\ budget = MaxOps - 3
    /\ nOk["alice"] = 2

(* C8 as stated: the two sequential Connect calls cause one start request  *)
(* and one stop request.                                                   *)
C8_OneStartOneStop ==
    TwoSequentialConnects => nStart["alice"] = 1 /\ nStop["alice"] = 1

(* C8 amended: each of the two sequential Connect calls causes its own     *)
(* start request and its own stop request: two of each.                    *)
C8_TwoStartsTwoStops ==
    TwoSequentialConnects => nStart["alice"] = 2 /\ nStop["alice"] = 2

C8_Witness ==
    /\ TwoSequentialConnects
    /\ nStart["alice"] = 2
    /\ nStop["alice"] = 2
    /\ ctn["alice"] = "exited"

(* The step of p belongs to a Connect that fails: p carries an error to    *)
(* return, or the step returns one.                                        *)
FailedConnectStep(p) ==
    /\ p.op = "connect"
    /\ Took(p)
    /\ p.res # "nil" \/ (last' # last /\ last'.res # "nil")

(* Sessions of u that hold a slot, the call p not counted. *)
OtherHolders(u, p) ==
    Holders(u) - (IF p.user = u /\ p.pc \in HoldingPcs THEN 1 ELSE 0)

(* C9: a step of a failed Connect leaves every other call where it is,     *)
(* does not stop the sandbox of a user who has other sessions holding a    *)
(* slot, and leaves the sandbox of every other user as it is.              *)
C9_FailedConnectIsolated ==
    [][\A p \in Running :
          FailedConnectStep(p)
          => /\ \A q \in Running \ {p} : CopiesIn(q, procs') >= CopiesIn(q, procs)
             /\ \A u \in Users :
                   (ctn[u] = "running" /\ ctn'[u] # "running")
                   => OtherHolders(u, p) = 0
             /\ \A u \in Users \ {p.user} : ctn'[u] = ctn[u]]_vars

(* C10: once a session of a user holds a slot, a state follows in which    *)
(* the user has no session, the slot counter of the user's record is 0     *)
(* and the sandbox is not running.                                         *)
C10_DrainedSandboxIsStopped ==
    \A u \in Users :
        (Holders(u) > 0)
        ~> (NoSession(u) /\ ActiveCount(u) = 0 /\ ctn[u] # "running")

(* The step is a Create of u returning an error: ContainerCreate failed    *)
(* with something other than a conflict, or ContainerInspect failed.       *)
CreateFailedStep(u) ==
    \/ /\ budget' = budget - 1
       /\ procs' = procs
       /\ last' = Returned("create", u, ErrCreate)
    \/ \E p \in Running :
          /\ p.op = "create" /\ p.user = u /\ p.pc = "inspect"
          /\ Took(p)
          /\ last' = Returned("create", u, ErrInspect)

(* C11: a Create that returns "failed to create container" or "failed to   *)
(* inspect container" stores nothing: the registry and the channels are    *)
(* as before, and a user without a record still has none, so that the      *)
(* user's next Connect fails at the lookup.                                *)
C11_FailedCreateRegistersNothing ==
    [][\A u \in Users :
          CreateFailedStep(u) =>
              /\ containerMap' = containerMap
              /\ chans' = chans
              /\ (~Loaded(u) => ~Loaded(u)')]_vars

C11_Witness ==
    /\ last = Returned("create", "alice", ErrInspect)
    /\ ~Loaded("alice")
    /\ ctn["alice"] # "absent"

(* The step is a Remove of u: a call is made, none is left in progress by  *)
(* it, and the call that returned last is a Remove of u.                   *)
RemoveStep(u) ==
    /\ budget' = budget - 1
    /\ BagCardinality(procs') = BagCardinality(procs)
    /\ last' = Returned("remove", u, "nil")

(* C12: Remove returns nil for every user, registered or not, and changes  *)
(* nothing: registry, channels, containers and the calls in progress are   *)
(* as before, and no start or stop request is sent to the runtime.         *)
C12_RemoveChangesNothing ==
    [][\A u \in Users :
          RemoveStep(u) =>
              UNCHANGED <<containerMap, chans, ctn, ctnId, procs, alive,
                          nStart, nStop, nOk>>]_vars

C12_Witness ==
    /\ last = Returned("remove", "alice", "nil")
    /\ Loaded("alice")
    /\ Holders("alice") > 0
    /\ ctn["alice"] = "running"

(* C14: a Connect never waits for a slot: no Connect stands at the send    *)
(* on manageChan while the channel is full.                                *)
C14_ConnectNeverWaits ==
    \A p \in Running :
        (p.op = "connect" /\ p.pc = "send") => CanSend(p.ch)

(* C15: the record of a registered user, with its ID and its manageChan,   *)
(* is never replaced: a Create for a user who has a record leaves it.      *)
C15_RecordNeverReplaced ==
    [][\A u \in Users : Loaded(u) => containerMap'[u] = containerMap[u]]_vars

(* C16: the length of every manageChan is the number of Connect calls that *)
(* sent on it and have not yet run the receive of their deferred function: *)
(* each call that acquired a slot gives back exactly one, however it ends. *)
(* When no Connect of a user is in progress, the user's count is 0.        *)
C16_EverySlotReleasedOnce ==
    /\ \A c \in 1..Len(chans) : chans[c] = HoldersOf(c)
    /\ \A u \in Users : NoSession(u) => ActiveCount(u) = 0

C16_Witness ==
    /\ last = Returned("connect", "alice", ErrAttach)
    /\ nOk["alice"] >= 1
    /\ NoSession("alice")
    /\ Loaded("alice")
    /\ ActiveCount("alice") = 0

(* The call p sent its start request and did not go on to the send: the    *)
(* request failed with an error other than a conflict.                     *)
StartFailedStep(p) ==
    /\ p.op = "connect" /\ p.pc = "start"
    /\ Took(p)
    /\ nStart'[p.user] = nStart[p.user] + 1
    /\ CopiesIn(At(p, "send"), procs') <= CopiesIn(At(p, "send"), procs)

(* C17: a Connect whose ContainerStart fails with a non-conflict error     *)
(* returns "failed to start container"; the length of every manageChan is  *)
(* as before, the call is over (it issues no exec-create or attach), and   *)
(* no stop request is sent.                                                *)
C17_StartFailureHoldsNoSlot ==
    [][\A p \in Running :
          StartFailedStep(p) =>
              /\ last' = Returned("connect", p.user, ErrStart)
              /\ procs' = Exit(p)
              /\ UNCHANGED <<chans, containerMap, ctn, nStop, nOk>>]_vars

C17_Witness ==
    /\ last = Returned("connect", "alice", ErrStart)
    /\ Holders("alice") = 1
    /\ ActiveCount("alice") = 1
    /\ nStart["alice"] = 2

(* C18: when the answer of ContainerStart is a conflict (the container is  *)
(* already running), the Connect does not return an error: it goes on to   *)
(* the send on manageChan and from there to ContainerExecCreate, and the   *)
(* container stays running.                                                *)
C18_ConflictOnStartIsSuccess ==
    [][\A p \in Running :
          (/\ p.op = "connect" /\ p.pc = "start"
           /\ Took(p)
           /\ "conflict" \in StartOutcomes(p.user)
           /\ ConnectStartOn(p, "conflict")) =>
              /\ procs' = Move(p, At(p, "send"))
              /\ ctn[p.user] = "running" /\ ctn'[p.user] = "running"
              /\ last' = last
              /\ chans' = chans]_vars

C18_Witness ==
    /\ CountAt("alice", {"exec"}) = 1
    /\ CountAt("alice", {"copy"}) = 1
    /\ ActiveCount("alice") = 2
    /\ nStart["alice"] = 2
    /\ ctn["alice"] = "running"

(* C13: the output copy of a session without a terminal, reading a stream  *)
(* of frames (header of 8 bytes, then the payload), writes the payloads to *)
(* stdout and stderr as they were framed: at every moment what was written *)
(* is the beginning of the framed sequence, stream by stream and payload   *)
(* by payload, and when the copy returns it is the whole sequence, empty   *)
(* payloads included, and the copy returns no error.                       *)
C13_RoundTrip ==
    (demux.pc # "none" /\ ~demux.isTty) =>
        /\ Len(demux.out) <= Len(demux.frames)
        /\ demux.out = SubSeq(demux.frames, 1, Len(demux.out))
        /\ demux.pc = "done" => (demux.out = demux.frames /\ ~demux.err)

C13_Witness ==
    /\ ~demux.isTty
    /\ demux.pc = "done"
    /\ demux.frames = <<[stream |-> "stderr", payload |-> <<>>],
                        [stream |-> "stdout", payload |-> <<2, 0>>]>>
    /\ demux.out = demux.frames

(* The Create and Connect calls in progress in the bag b, with their       *)
(* positions and locals.                                                   *)
Calls(b) ==
    [p \in {q \in BagToSet(b) : q.op \in {"connect", "create"}} |-> CopiesIn(p, b)]

(* C19: Connect waits for the output copy and for nothing else.  While a   *)
(* Connect is at "err = <-outputErr" the end of the output copy is all it  *)
(* needs to go on, whatever the goroutine copying stdin does, and it       *)
(* leaves that position only with the result of the output copy, towards   *)
(* the deferred release; what it returns in the end is that result.  The   *)
(* end of the stdin copy changes no call, returns nothing and releases     *)
(* nothing.                                                                *)
C19_OutputCopyAloneDecides ==
    /\ [](\A p \in Running :
             (alive /\ p.op = "connect" /\ p.pc = "copy") => ENABLED ConnectOutput(p))
    /\ [][/\ \A p \in Running :
               (p.op = "connect" /\ p.pc = "copy" /\ Took(p)) =>
                   /\ \E r \in {"nil", ErrStdout} :
                          procs' = Move(p, AtWith(p, "recv", r))
                   /\ UNCHANGED <<last, chans>>
          /\ \A p \in Running :
               (p.op = "connect" /\ p.pc \in {"len", "stop"} /\ Took(p)
                   /\ alive' /\ CopiesIn(At(p, "stop"), procs') <= CopiesIn(At(p, "stop"), procs)) =>
                   last' = Returned("connect", p.user, p.res)
          /\ \A g \in Running :
               (g.op = "stdin" /\ Took(g)) =>
                   /\ Calls(procs') = Calls(procs)
                   /\ UNCHANGED <<last, chans, ctn, containerMap, alive, nStop, nOk>>]_vars

(* A Connect of alice returned nil and gave back its slot while the        *)
(* goroutine copying its stdin, which is never exhausted, is still there.  *)
C19_Witness ==
    /\ last = Returned("connect", "alice", "nil")
    /\ NoSession("alice")
    /\ Loaded("alice") /\ ActiveCount("alice") = 0
    /\ StdinProc("alice", "copy", FALSE) \in Running

(* The events sent on a winCh, in their order. *)
WinSent(n) == [i \in 1..n |-> Window(i)]

(* C20: the resize goroutine of a session with a terminal sends one        *)
(* ContainerExecResize per event received from winCh, with the event's     *)
(* Height and Width and in the order of the events; after a failed request *)
(* it has left the loop, and once it has returned it does nothing more.    *)
(* Its steps, the end of the loop included, change no call in progress,    *)
(* return nothing and release nothing: the session goes on.                *)
C20_ResizeForwarding ==
    /\ [](\A g \in Running :
             g.op = "resize" =>
                 /\ g.got = WinSent(Len(g.got))
                 /\ Len(g.sent) = Len(g.got)
                 /\ \A i \in 1..Len(g.got) :
                        g.sent[i] = [Height |-> g.got[i].Height, Width |-> g.got[i].Width]
                 /\ g.err => g.pc = "done")
    /\ [][\A g \in Running :
             (g.op = "resize" /\ Took(g)) =>
                 /\ g.pc = "range"
                 /\ Calls(procs') = Calls(procs)
                 /\ UNCHANGED <<last, chans, ctn, containerMap, alive, nStop, nOk>>]_vars

(* winCh gave one event and was closed: one request was sent, the          *)
(* goroutine has returned, and the session is attached.                    *)
C20_Witness ==
    /\ ResizeProc("alice", "done", <<[Height |-> 24, Width |-> 80]>>,
                  <<[Height |-> 24, Width |-> 80]>>, FALSE) \in Running
    /\ CountAt("alice", {"copy"}) = 1

====
